---- MODULE Spec2Model ----
(***************************************************************************)
(* Namescan batch screening: the rationale engine (Person.rationale), the  *)
(* screening client (send_request / validate_file) with its on-disk cache  *)
(* of request and response files, and the report builder (add_rationale /  *)
(* create_rationale), and the value types of models.py: the summaries of  *)
(* a matched entity, the hash of a subject and the format of its date of   *)
(* birth.                                                                  *)
(*                                                                         *)
(* Python str values are TLA+ strings.  An Optional[str] is <<>> for None  *)
(* and <<s>> for the string s, so that None, "" and "None" stay distinct.  *)
(***************************************************************************)
EXTENDS Integers, Sequences, FiniteSets, TLC

VARIABLES
    person,      \* the matched entity handed to the rationale engine
    explained,   \* what the rationale engine returned for it, and which class computed it
    now,         \* the current day
    rows,        \* the input table: one subject per row
    reqFile,     \* cache directory: {hash}.req.json, by hash
    respFile,    \* cache directory: {hash}.resp.json, by hash
    pc,          \* where the run is: idle, validate, explain, done, aborted, crashed,
                 \* explain_raised
    idx,         \* validate_file: the row the loop is at
    last,        \* what the latest send_request call of this run did
    attempt,     \* by hash, the payload of the latest send_request call for it
    netCalls,    \* number of requests.post calls issued in this run
    prompts,     \* number of prompt.Confirm.ask questions put to the operator in this run
    runs,        \* number of runs of the CLI started so far
    skip,        \* the --skip flag of this run
    report,      \* the output table add_rationale wrote last, if any
    frames,      \* rows of an input sheet handed to from_dataframe
    scanned      \* what was computed from those rows so far

vars == <<person, explained, now, rows, reqFile, respFile, pc, idx, last,
          attempt, netCalls, prompts, runs, skip, report, frames, scanned>>

(***************************************************************************)
(* Python values                                                           *)
(***************************************************************************)
None == <<>>

Some(s) == <<s>>

\* bool(x) for an Optional[str]: None and "" are falsy
Truthy(o) == o # None /\ o[1] # ""

\* f"{x}" for an Optional[str]
Fmt(o) == IF o = None THEN "None" ELSE o[1]

UpperCase == "ABCDEFGHIJKLMNOPQRSTUVWXYZ"

LowerCase == "abcdefghijklmnopqrstuvwxyz"

LowerChar(c) ==
    IF \E i \in 1..Len(UpperCase) : SubSeq(UpperCase, i, i) = c
    THEN LET i == CHOOSE j \in 1..Len(UpperCase) : SubSeq(UpperCase, j, j) = c
         IN  SubSeq(LowerCase, i, i)
    ELSE c

RECURSIVE Lower(_)
\* str.lower()
Lower(s) ==
    IF Len(s) = 0 THEN ""
    ELSE LowerChar(SubSeq(s, 1, 1)) \o Lower(SubSeq(s, 2, Len(s)))

\* sub in s, for two str
Contains(sub, s) ==
    \E i \in 1..(Len(s) - Len(sub) + 1) : SubSeq(s, i, i + Len(sub) - 1) = sub

\* x in xs, for a list
InList(x, xs) == \E i \in 1..Len(xs) : xs[i] = x

RECURSIVE Join(_, _)
\* sep.join(xs)
Join(sep, xs) ==
    IF Len(xs) = 0 THEN ""
    ELSE IF Len(xs) = 1 THEN xs[1]
    ELSE xs[1] \o sep \o Join(sep, Tail(xs))

(***************************************************************************)
(* Rationale engine: Person                                                *)
(***************************************************************************)
\* the place of birth put before the date of birth
entity_summary_origin_first(p) ==
    IF Truthy(p.summary) THEN p.summary[1]
    ELSE LET name   == IF Len(p.other_names) > 0 THEN Join(", ", p.other_names)
                       ELSE p.name
             origin == IF Len(p.places_of_birth) > 0
                       THEN ", in " \o p.places_of_birth[1] ELSE ""
             born   == IF Len(p.dates_of_birth) > 0
                       THEN ", born " \o p.dates_of_birth[1] ELSE ""
             gender == IF p.gender # None THEN ", " \o p.gender[1] ELSE ""
         IN  name \o gender \o origin \o born

\* Person.entity_summary
entity_summary(p) ==
    IF Truthy(p.summary) THEN p.summary[1]
    ELSE LET name   == IF Len(p.other_names) > 0 THEN Join(", ", p.other_names)
                       ELSE p.name
             origin == IF Len(p.places_of_birth) > 0
                       THEN ", in " \o p.places_of_birth[1] ELSE ""
             born   == IF Len(p.dates_of_birth) > 0
                       THEN ", born " \o p.dates_of_birth[1] ELSE ""
             gender == IF p.gender # None THEN ", " \o p.gender[1] ELSE ""
         IN  name \o gender \o born \o origin

\* Person.politician_summary
politician_summary(p) ==
    LET summary     == entity_summary(p)
        affiliation == IF Len(p.political_parties) > 0
                       THEN " for " \o p.political_parties[1] ELSE ""
    IN  "Politician, " \o summary \o affiliation

\* the rule chain with the politician rule tried first
Person_rationale_politician_first(p) ==
    IF InList("politician", p.occupations) THEN Some(politician_summary(p))
    ELSE IF p.deceased THEN Some("Deceased " \o Fmt(p.deceased_date))
    ELSE IF Truthy(p.original_script_name)
        THEN Some("Not an Indonesian name: " \o p.original_script_name[1])
    ELSE IF Truthy(p.program) /\ Contains("syr", Lower(p.program[1]))
        THEN Some("Suspect in Syrian conflict")
    ELSE IF Len(p.roles) > 0 THEN Some("Public figure: " \o p.roles[1])
    ELSE IF p.citizenship # "" /\ ~Contains("indonesia", Lower(p.citizenship))
        THEN Some("Foreigner: " \o p.citizenship)
    ELSE None

\* Person.rationale of validate.py
Person_rationale(p) ==
    IF p.deceased THEN Some("Deceased " \o Fmt(p.deceased_date))
    ELSE IF Truthy(p.original_script_name)
        THEN Some("Not an Indonesian name: " \o p.original_script_name[1])
    ELSE IF Truthy(p.program) /\ Contains("syr", Lower(p.program[1]))
        THEN Some("Suspect in Syrian conflict")
    ELSE IF InList("politician", p.occupations) THEN Some(politician_summary(p))
    ELSE IF Len(p.roles) > 0 THEN Some("Public figure: " \o p.roles[1])
    ELSE IF p.citizenship # "" /\ ~Contains("indonesia", Lower(p.citizenship))
        THEN Some("Foreigner: " \o p.citizenship)
    ELSE None

\* Person.rationale of models.py
models_Person_rationale(p) ==
    IF p.deceased THEN Some("Deceased " \o Fmt(p.deceased_date))
    ELSE IF Truthy(p.original_script_name)
        THEN Some("Not an Indonesian name: " \o p.original_script_name[1])
    ELSE IF Truthy(p.program) /\ Contains("syr", Lower(p.program[1]))
        THEN Some("Suspect in Syrian conflict")
    ELSE IF p.citizenship # "" /\ ~Contains("indonesia", Lower(p.citizenship))
        THEN Some("Foreigner: " \o p.citizenship)
    ELSE IF InList("politician", p.occupations) THEN Some(politician_summary(p))
    ELSE IF Len(p.roles) > 0 THEN Some("Public figure: " \o p.roles[1])
    ELSE None

(***************************************************************************)
(* Matched person entities the API can return                              *)
(***************************************************************************)
Persons ==
    [ name                 : {"Ali"},
      deceased             : BOOLEAN,
      deceased_date        : {None, Some("2001-02-03")},
      gender               : {None, Some("male")},
      original_script_name : {None, Some(""), Some("Aly")},
      dates_of_birth       : {<<>>},
      places_of_birth      : {<<>>},
      program              : {None, Some(""), Some("SYRIA"), Some("Iraq")},
      occupations          : {<<>>, <<"lawyer", "politician">>, <<"Politician">>},
      political_parties    : {<<>>, <<"PDI">>},
      roles                : {<<>>, <<"Mayor", "Governor">>},
      citizenship          : {"", "Indonesia", "INDONESIAN", "Malaysia"},
      other_names          : {<<>>},
      summary              : {None, Some("Ali, male")} ]

NoPerson == CHOOSE p \in Persons :
    /\ ~p.deceased /\ p.deceased_date = None /\ p.gender = None
    /\ p.original_script_name = None /\ p.program = None /\ p.occupations = <<>>
    /\ p.political_parties = <<>> /\ p.roles = <<>> /\ p.citizenship = ""
    /\ p.summary = None

NotExplained == [by |-> "nobody", value |-> None]

(***************************************************************************)
(* Bounds of the model                                                     *)
(***************************************************************************)
MaxRows == 2

MaxRuns == 2

MaxDay == 1

Days == 0..MaxDay

\* the values of max_age_days / --age a caller can ask for
Ages == 0..MaxDay

(***************************************************************************)
(* Subjects to scan (validate.py)                                          *)
(***************************************************************************)
\* PersonToScan.match_rate, as PersonToScan.from_dataframe sets it
match_rate == 50

\* hashlib.md5(joined.encode("utf-8")).hexdigest(): the digest stands for its input
md5_hexdigest(joined) == <<"md5", joined>>

\* self.x or "" for an Optional[str]
OrEmpty(o) == IF Truthy(o) THEN o[1] ELSE ""

\* PersonToScan.hash of validate.py
PersonToScan_hash(s) ==
    md5_hexdigest(Join("", <<s.name, OrEmpty(s.dob), OrEmpty(s.first_name),
                             OrEmpty(s.last_name), OrEmpty(s.gender)>>))

\* PersonToScan.from_dataframe of validate.py: the subject of a row
PersonToScan(name, first_name, last_name, gender, dob, country) ==
    [ name |-> name, first_name |-> first_name, middle_name |-> None,
      last_name |-> last_name,
      gender |-> gender, dob |-> dob, country |-> country, list_type |-> None,
      included_lists |-> None, excluded_lists |-> None, match_rate |-> match_rate ]

\* the subjects of the input tables; the first two differ in the country only
Subjects ==
    { PersonToScan("Ali", Some("Mo"), None, Some("male"), None, "Indonesia"),
      PersonToScan("Ali", Some("Mo"), None, Some("male"), None, "Malaysia"),
      PersonToScan("Eva", None, None, None, Some("1990"), "Indonesia") }

Hashes == { PersonToScan_hash(s) : s \in Subjects }

Tables == UNION { [1..n -> Subjects] : n \in 1..MaxRows }

(***************************************************************************)
(* Files and HTTP bodies                                                   *)
(*   a text is [json, fmt, data]: json says whether it parses as JSON, fmt *)
(*   is its layout, data the value it parses to                            *)
(***************************************************************************)
NoFile == <<>>

DeceasedPerson == [NoPerson EXCEPT !.deceased = TRUE, !.name = "Aly"]

\* the entity lists of the responses of the API
PersonLists ==
    { <<>>, <<DeceasedPerson>>, <<DeceasedPerson, NoPerson, NoPerson>> }

\* a complete scan result, and a JSON object without the mandatory keys
ScanData(d) ==
    { [complete |-> TRUE, date |-> d, persons |-> ps] : ps \in PersonLists }
    \cup { [complete |-> FALSE, date |-> d, persons |-> <<>>] }

NoData == [complete |-> FALSE, date |-> 0, persons |-> <<>>]

\* json.dumps(value, indent=4)
json_dumps(value) == [json |-> TRUE, fmt |-> "indent4", data |-> value]

\* response.json() / json.loads(text): defined for JSON texts only
IsJson(text) == text.json

json_loads(text) == text.data

\* what requests.post can come back with on day d
HttpResponses(d) ==
    { [status_code |-> 200, content |-> [json |-> TRUE, fmt |-> "raw", data |-> v]]
        : v \in ScanData(d) }
    \cup { [status_code |-> 200, content |-> [json |-> FALSE, fmt |-> "raw", data |-> NoData]],
           [status_code |-> 302,
            content |-> [json |-> TRUE, fmt |-> "raw",
                         data |-> [complete |-> TRUE, date |-> d, persons |-> <<>>]]],
           [status_code |-> 500, content |-> [json |-> FALSE, fmt |-> "raw", data |-> NoData]] }

\* requests.post raises instead of returning
Raised == {"Timeout", "ConnectionError"}

Replies(d) ==
    { [raised |-> "", status_code |-> r.status_code, content |-> r.content]
        : r \in HttpResponses(d) }
    \cup { [raised |-> e, status_code |-> 0,
            content |-> [json |-> FALSE, fmt |-> "raw", data |-> NoData]] : e \in Raised }

(***************************************************************************)
(* Screening client (validate.py)                                          *)
(***************************************************************************)
\* file_response(file_path): the file's text as a response with status 201
file_response(text) == [raised |-> "", status_code |-> 201, content |-> text]

\* the cache never consulted
output_file_never_exists(h) == FALSE

\* a stored response without the mandatory keys taken for a missing one
output_file_exists_and_complete(h) ==
    respFile[h] # NoFile /\ json_loads(respFile[h][1]).complete

\* send_request, line 335: output_file.exists()
output_file_exists(h) == respFile[h] # NoFile

\* the request logged only when the API is about to be called
log_request_payload_on_miss(s, h) ==
    IF respFile[h] # NoFile THEN reqFile ELSE [reqFile EXCEPT ![h] = Some(json_dumps(s))]

\* send_request, line 326: log_request(entity_dict, {hash}.req.json)
log_request_payload(s, h) == [reqFile EXCEPT ![h] = Some(json_dumps(s))]

\* send_request, line 338: the branch that parses and stores the response
is_success(response) == response.status_code < 300

NoCall ==
    [ row |-> 0, hash |-> md5_hexdigest(""), existed |-> FALSE, fileAge |-> -1,
      posted |-> 0, outcome |-> "none", status_code |-> 0, error |-> None,
      parsed |-> None, before |-> NoFile, cached |-> None, afterFailure |-> FALSE,
      prompts |-> 0, confirmed |-> FALSE, failures |-> 0 ]

\* age in days of a stored response, from its "date" field
FileAge(file) ==
    IF file # NoFile /\ json_loads(file[1]).complete
    THEN now - json_loads(file[1]).date ELSE -1

\* send_request(console, entity, index, api_url, entity_dict, key, output_path) for
\* the subject of row i; reply is what requests.post does if it is called.
\* An exception leaves send_request and validate_file and ends the run.
send_request(i, reply) ==
    LET s        == rows[i]
        h        == PersonToScan_hash(s)
        existed  == output_file_exists(h)
        response == IF existed THEN file_response(respFile[h][1]) ELSE reply
        raises   == response.raised # ""
                    \/ (is_success(response) /\ ~IsJson(response.content))
        ok       == ~raises /\ is_success(response)
        call     == [ row |-> i, hash |-> h, existed |-> existed,
                      fileAge |-> FileAge(respFile[h]),
                      posted |-> IF existed THEN 0 ELSE 1,
                      outcome |-> IF raises THEN "raised"
                                  ELSE IF ok THEN "success" ELSE "failure",
                      status_code |-> response.status_code,
                      error |-> IF ~raises /\ ~ok
                                THEN Some([hash |-> h, name |-> s.name,
                                           status_code |-> response.status_code,
                                           text |-> response.content])
                                ELSE None,
                      parsed |-> IF ok THEN Some(json_loads(response.content)) ELSE None,
                      before |-> respFile[h],
                      cached |-> IF existed THEN Some(response) ELSE None,
                      afterFailure |-> (last.row = i - 1 /\ last.outcome = "failure"),
                      prompts |-> prompts,
                      confirmed |-> prompts > last.prompts,
                      failures |-> IF ok THEN last.failures ELSE last.failures + 1 ]
    IN  /\ reqFile' = log_request_payload(s, h)
        /\ attempt' = [attempt EXCEPT ![h] = Some(s)]
        /\ netCalls' = netCalls + call.posted
        /\ respFile' = IF ok
                       THEN [respFile EXCEPT
                               ![h] = Some(json_dumps(json_loads(response.content)))]
                       ELSE respFile
        /\ last' = call
        /\ pc' = IF raises THEN "crashed"
                 ELSE IF i = Len(rows) THEN "explain" ELSE "validate"
        /\ idx' = IF raises THEN idx ELSE i + 1

\* validate_file: one iteration of the loop over the rows
validate_file ==
    /\ pc = "validate"
    /\ idx <= Len(rows)
    /\ \E reply \in Replies(now) :
          /\ (output_file_exists(PersonToScan_hash(rows[idx]))
                => reply = CHOOSE r \in Replies(now) : TRUE)
          /\ send_request(idx, reply)
    /\ UNCHANGED <<person, explained, now, rows, prompts, runs, skip, report,
                   frames, scanned>>

(***************************************************************************)
(* Subjects built from the rows of a sheet (models.py, validate.py)        *)
(***************************************************************************)
\* nothing was computed from the rows of the sheet yet
\* basic tells whether the interpreter's fromisoformat reads YYYYMMDD
NotScanned == [stage |-> "frames", basic |-> FALSE]

Digits == "0123456789"

IsDigit(c) == \E i \in 1..Len(Digits) : SubSeq(Digits, i, i) = c

DigitValue(c) == (CHOOSE i \in 1..Len(Digits) : SubSeq(Digits, i, i) = c) - 1

\* str.isdigit() for a non-empty ASCII str
IsDigits(s) == Len(s) > 0 /\ \A i \in 1..Len(s) : IsDigit(SubSeq(s, i, i))

RECURSIVE ToInt(_)
\* int(s) for a str of digits
ToInt(s) ==
    IF Len(s) = 0 THEN 0
    ELSE 10 * ToInt(SubSeq(s, 1, Len(s) - 1)) + DigitValue(SubSeq(s, Len(s), Len(s)))

RECURSIVE ZeroPadded(_, _)
\* the decimal digits of n, zero padded to the width: "%02d", "%04d"
ZeroPadded(n, width) ==
    IF width = 0 THEN ""
    ELSE ZeroPadded(n \div 10, width - 1) \o SubSeq(Digits, (n % 10) + 1, (n % 10) + 1)

IsLeap(year) == (year % 4 = 0 /\ year % 100 # 0) \/ year % 400 = 0

DaysInMonth(year, month) ==
    IF month = 2 THEN (IF IsLeap(year) THEN 29 ELSE 28)
    ELSE IF month \in {4, 6, 9, 11} THEN 30 ELSE 31

\* the time of day fromisoformat reads after the date and one separator
\* character: HH, HH:MM or HH:MM:SS
IsIsoTime(s) ==
    /\ Len(s) \in {2, 5, 8}
    /\ IsDigits(SubSeq(s, 1, 2)) /\ ToInt(SubSeq(s, 1, 2)) < 24
    /\ (Len(s) >= 5 =>
          /\ SubSeq(s, 3, 3) = ":"
          /\ IsDigits(SubSeq(s, 4, 5)) /\ ToInt(SubSeq(s, 4, 5)) < 60)
    /\ (Len(s) = 8 =>
          /\ SubSeq(s, 6, 6) = ":"
          /\ IsDigits(SubSeq(s, 7, 8)) /\ ToInt(SubSeq(s, 7, 8)) < 60)

NotADate == [valid |-> FALSE, year |-> 0, month |-> 0, day |-> 0]

\* datetime(year, month, day, ...) of the three digit groups, or ValueError
DateOf(y, m, d, rest) ==
    IF /\ IsDigits(y) /\ IsDigits(m) /\ IsDigits(d)
       /\ ToInt(y) >= 1
       /\ ToInt(m) \in 1..12
       /\ ToInt(d) >= 1 /\ ToInt(d) <= DaysInMonth(ToInt(y), ToInt(m))
       /\ (rest = "" \/ (Len(rest) > 1 /\ IsIsoTime(SubSeq(rest, 2, Len(rest)))))
    THEN [valid |-> TRUE, year |-> ToInt(y), month |-> ToInt(m), day |-> ToInt(d)]
    ELSE NotADate

\* datetime.fromisoformat(s) for a str: YYYY-MM-DD, optionally followed by one
\* separator character and a time; an interpreter from 3.11 on also reads the
\* basic format YYYYMMDD (basic = TRUE).  Not valid stands for ValueError.
fromisoformat(s, basic) ==
    IF Len(s) >= 10 /\ SubSeq(s, 5, 5) = "-" /\ SubSeq(s, 8, 8) = "-"
    THEN DateOf(SubSeq(s, 1, 4), SubSeq(s, 6, 7), SubSeq(s, 9, 10), SubSeq(s, 11, Len(s)))
    ELSE IF basic /\ Len(s) >= 8 /\ IsDigits(SubSeq(s, 1, 8))
    THEN DateOf(SubSeq(s, 1, 4), SubSeq(s, 5, 6), SubSeq(s, 7, 8), SubSeq(s, 9, Len(s)))
    ELSE NotADate

\* dtm.strftime("%d/%m/%Y")
strftime_dmY(dtm) ==
    ZeroPadded(dtm.day, 2) \o "/" \o ZeroPadded(dtm.month, 2) \o "/" \o ZeroPadded(dtm.year, 4)

\* the date written month first
strftime_mdY(dtm) ==
    ZeroPadded(dtm.month, 2) \o "/" \o ZeroPadded(dtm.day, 2) \o "/" \o ZeroPadded(dtm.year, 4)

\* the date written month first where PersonToScan wants the day first
to_us_dob_format(dob, basic) ==
    IF dob = None THEN ""
    ELSE IF fromisoformat(dob[1], basic).valid
    THEN strftime_mdY(fromisoformat(dob[1], basic))
    ELSE dob[1]

\* PersonToScan.to_namescan_dob_format(dob) of models.py, for None or a str
to_namescan_dob_format(dob, basic) ==
    IF dob = None THEN ""
    ELSE IF fromisoformat(dob[1], basic).valid
    THEN strftime_dmY(fromisoformat(dob[1], basic))
    ELSE dob[1]

RECURSIVE Strip(_)
\* str.strip() of blanks
Strip(s) ==
    IF Len(s) = 0 THEN ""
    ELSE IF SubSeq(s, 1, 1) = " " THEN Strip(SubSeq(s, 2, Len(s)))
    ELSE IF SubSeq(s, Len(s), Len(s)) = " " THEN Strip(SubSeq(s, 1, Len(s) - 1))
    ELSE s

RECURSIVE Replace(_, _, _)
\* s.replace(old, new) for a one-character old
Replace(s, old, new) ==
    IF Len(s) = 0 THEN ""
    ELSE (IF SubSeq(s, 1, 1) = old THEN new ELSE SubSeq(s, 1, 1))
            \o Replace(SubSeq(s, 2, Len(s)), old, new)

\* Gender(gender.strip().lower()), None for an empty or absent cell
ToGender(gender) == IF ~Truthy(gender) THEN None ELSE Some(Lower(Strip(gender[1])))

\* frame_dict.get(column, default)
GetOr(cell, default) == IF cell = None THEN default ELSE cell[1]

\* PersonToScan.from_dataframe of validate.py
PersonToScan_from_dataframe(frame) ==
    [ name |-> frame.Name[1], first_name |-> frame.FirstName,
      middle_name |-> frame.MiddleName, last_name |-> frame.LastName,
      gender |-> ToGender(frame.Gender), dob |-> frame.DOB,
      country |-> GetOr(frame.Country, "Indonesia"), list_type |-> None,
      included_lists |-> None, excluded_lists |-> None, match_rate |-> match_rate ]

\* PersonToScan.from_dataframe of models.py
models_PersonToScan_from_dataframe(frame, basic) ==
    [ name |-> frame.Name[1], first_name |-> frame.FirstName,
      middle_name |-> frame.MiddleName, last_name |-> frame.LastName,
      gender |-> ToGender(frame.Gender),
      dob |-> Some(to_namescan_dob_format(frame.DOB, basic)),
      country |-> GetOr(frame.Country, "Indonesia"), list_type |-> None,
      included_lists |-> None, excluded_lists |-> None, match_rate |-> match_rate ]

\* the country of the subject hashed along with its identifying fields
PersonToScan_hash_with_country(s) ==
    md5_hexdigest(Join("", <<Replace(s.name, "-", ""), Replace(OrEmpty(s.dob), "-", ""),
                             Replace(OrEmpty(s.first_name), "-", ""),
                             Replace(OrEmpty(s.last_name), "-", ""),
                             Replace(OrEmpty(s.gender), "-", ""), s.country>>))

\* PersonToScan.hash of models.py
models_PersonToScan_hash(s) ==
    md5_hexdigest(Join("", <<Replace(s.name, "-", ""), Replace(OrEmpty(s.dob), "-", ""),
                             Replace(OrEmpty(s.first_name), "-", ""),
                             Replace(OrEmpty(s.last_name), "-", ""),
                             Replace(OrEmpty(s.gender), "-", "")>>))

\* OrganizationToScan.from_dataframe
OrganizationToScan_from_dataframe(frame) ==
    [ name |-> frame.Name[1], country |-> frame.Country[1] ]

\* OrganizationToScan.hash
OrganizationToScan_hash(o) == md5_hexdigest(Join("", <<o.name, o.country>>))

(***************************************************************************)
(* Report builder (validate.py)                                            *)
(***************************************************************************)
RECURSIVE dict_keys(_)
\* the keys of {match: ... for match in persons}: equal entities are one key, kept
\* where the first of them was inserted
dict_keys(persons) ==
    IF Len(persons) = 0 THEN <<>>
    ELSE LET init == dict_keys(SubSeq(persons, 1, Len(persons) - 1))
             x    == persons[Len(persons)]
         IN  IF InList(x, init) THEN init ELSE Append(init, x)

\* Rationale(entity_to_scan, {match: match.rationale for match in scan_result.persons})
Rationale(s, persons) ==
    [ entity_to_scan |-> s,
      matches_with_explanations |->
          [ i \in 1..Len(dict_keys(persons)) |->
              [ entity |-> dict_keys(persons)[i],
                explanation |-> Person_rationale(dict_keys(persons)[i]) ] ] ]

\* Rationale.matches
Rationale_matches(r) == Len(r.matches_with_explanations)

HasExplanation(m) == m.explanation # None

HasNoExplanation(m) == m.explanation = None

\* Rationale.explained
Rationale_explained(r) == Len(SelectSeq(r.matches_with_explanations, HasExplanation))

\* Rationale.rationale
Rationale_rationale(r) ==
    LET ms == SelectSeq(r.matches_with_explanations, HasExplanation)
    IN  Join(", ", [i \in 1..Len(ms) |-> ms[i].entity.name \o ": " \o ms[i].explanation[1]])

\* Rationale.no_rationale
Rationale_no_rationale(r) ==
    LET ms == SelectSeq(r.matches_with_explanations, HasNoExplanation)
    IN  Join(", ", [i \in 1..Len(ms) |->
                      ms[i].entity.name \o ": " \o entity_summary(ms[i].entity)])

\* add_rationale.to_verdict
to_verdict(r) ==
    IF Rationale_explained(r) = Rationale_matches(r) THEN "False positive"
    ELSE IF Rationale_matches(r) = 0 THEN "No match"
    ELSE "Needs explanation"

\* create_rationale raises: read_text on a missing file, json.loads on a text that
\* is not JSON, PersonScanResult.from_json on an object without the mandatory keys
create_rationale_raises(s) ==
    LET file == respFile[PersonToScan_hash(s)]
    IN  \/ file = NoFile
        \/ ~IsJson(file[1])
        \/ ~json_loads(file[1]).complete

\* create_rationale(console, index, entity, person_hash, output_path)
create_rationale(s) ==
    Rationale(s, json_loads(respFile[PersonToScan_hash(s)][1]).persons)

\* the rows counted where their values should be added up
count_rows(xs) == Len(xs)

RECURSIVE Sum(_)
\* sum(... for rationale in rationales)
Sum(xs) == IF Len(xs) = 0 THEN 0 ELSE xs[1] + Sum(Tail(xs))

NoReport == <<>>

\* the derived columns laid against the rows in the opposite order
output_table_misaligned ==
    LET n          == Len(rows)
        rationales == [i \in 1..n |-> create_rationale(rows[n + 1 - i])]
    IN  [ table |-> [ i \in 1..n |->
                        [ input           |-> rows[i],
                          UniqueId        |-> PersonToScan_hash(rationales[i].entity_to_scan),
                          Matched         |-> Rationale_matches(rationales[i]) > 0,
                          Verdict         |-> to_verdict(rationales[i]),
                          Explanation     |-> Rationale_rationale(rationales[i]),
                          NeedExplanation |-> Rationale_no_rationale(rationales[i]),
                          matches         |-> Rationale_matches(rationales[i]),
                          explained       |-> Rationale_explained(rationales[i]) ] ],
          total_matches   |-> Sum([i \in 1..n |-> Rationale_matches(rationales[i])]),
          total_explained |-> Sum([i \in 1..n |-> Rationale_explained(rationales[i])]) ]

\* the output table of add_rationale and the totals it logs
output_table ==
    LET rationales == [i \in 1..Len(rows) |-> create_rationale(rows[i])]
    IN  [ table |-> [ i \in 1..Len(rows) |->
                        [ input           |-> rows[i],
                          UniqueId        |-> PersonToScan_hash(rationales[i].entity_to_scan),
                          Matched         |-> Rationale_matches(rationales[i]) > 0,
                          Verdict         |-> to_verdict(rationales[i]),
                          Explanation     |-> Rationale_rationale(rationales[i]),
                          NeedExplanation |-> Rationale_no_rationale(rationales[i]),
                          matches         |-> Rationale_matches(rationales[i]),
                          explained       |-> Rationale_explained(rationales[i]) ] ],
          total_matches   |-> Sum([i \in 1..Len(rows) |-> Rationale_matches(rationales[i])]),
          total_explained |-> Sum([i \in 1..Len(rows) |-> Rationale_explained(rationales[i])]) ]

\* add_rationale(console, input_file, entity, output_path, file_format): an exception
\* of create_rationale leaves add_rationale before anything is written
add_rationale ==
    /\ pc = "explain"
    /\ IF \E i \in 1..Len(rows) : create_rationale_raises(rows[i])
       THEN pc' = "explain_raised" /\ report' = report
       ELSE pc' = "done" /\ report' = Some(output_table)
    /\ UNCHANGED <<person, explained, now, rows, reqFile, respFile, idx, last,
                   attempt, netCalls, prompts, runs, skip, frames, scanned>>

(***************************************************************************)
(* CLI (surfaid_namescan.py)                                               *)
(***************************************************************************)
Stopped == {"idle", "done", "aborted", "crashed", "explain_raised"}

\* the screening stage run although --skip was given
validate_although_skipped(flag) == "validate"

\* check, lines 127-129: "if not skip: validate_file(...)", then add_rationale(...)
stage_after_confirmation(flag) == IF flag THEN "explain" ELSE "validate"

\* check(file, cache, output, key, entity, skip, age): asks before overwriting an
\* existing output sheet, then runs validate_file unless --skip, then add_rationale.
\* validate_file and send_request of validate.py take no maximum age, so the age
\* option reaches neither; check_database and to_entities are not in validate.py.
check ==
    /\ pc \in Stopped
    /\ runs < MaxRuns
    /\ runs' = runs + 1
    /\ \E flag \in BOOLEAN, overwrite \in BOOLEAN :
          /\ (report = NoReport => overwrite)
          /\ prompts' = IF report # NoReport THEN 1 ELSE 0
          /\ skip' = flag
          /\ pc' = IF ~overwrite THEN "aborted"
                   ELSE stage_after_confirmation(flag)
          /\ idx' = 1
          /\ last' = [NoCall EXCEPT !.prompts = prompts']
    /\ netCalls' = 0
    /\ UNCHANGED <<person, explained, now, rows, reqFile, respFile, attempt, report,
                   frames, scanned>>

\* a day passes between two runs
Tick ==
    /\ pc \in Stopped
    /\ 0 < runs /\ runs < MaxRuns
    /\ now < MaxDay
    /\ now' = now + 1
    /\ UNCHANGED <<person, explained, rows, reqFile, respFile, pc, idx, last,
                   attempt, netCalls, prompts, runs, skip, report,
                   frames, scanned>>

Init ==
    /\ person = NoPerson
    /\ explained = NotExplained
    /\ now = 0
    /\ rows \in Tables
    /\ reqFile = [h \in Hashes |-> NoFile]
    /\ respFile = [h \in Hashes |-> NoFile]
    /\ pc = "idle"
    /\ idx = 1
    /\ last = NoCall
    /\ attempt = [h \in Hashes |-> None]
    /\ netCalls = 0
    /\ prompts = 0
    /\ runs = 0
    /\ skip = FALSE
    /\ report = NoReport
    /\ frames = <<>>
    /\ scanned = NotScanned

Next == check \/ validate_file \/ add_rationale \/ Tick

Spec == Init /\ [][Next]_vars

(***************************************************************************)
(* The rationale engine on its own: every entity of Persons, both classes  *)
(***************************************************************************)
\* Person.rationale of validate.py on the entity
rationale ==
    /\ explained.by = "nobody"
    /\ explained' = [by |-> "validate", value |-> Person_rationale(person)]
    /\ UNCHANGED <<person, now, rows, reqFile, respFile, pc, idx, last, attempt,
                   netCalls, prompts, runs, skip, report,
                   frames, scanned>>

\* Person.rationale of models.py on the entity
models_rationale ==
    /\ explained.by = "nobody"
    /\ explained' = [by |-> "models", value |-> models_Person_rationale(person)]
    /\ UNCHANGED <<person, now, rows, reqFile, respFile, pc, idx, last, attempt,
                   netCalls, prompts, runs, skip, report,
                   frames, scanned>>

InitRationale ==
    /\ person \in Persons
    /\ explained = NotExplained
    /\ now = 0
    /\ rows = <<>>
    /\ reqFile = [h \in Hashes |-> NoFile]
    /\ respFile = [h \in Hashes |-> NoFile]
    /\ pc = "idle"
    /\ idx = 1
    /\ last = NoCall
    /\ attempt = [h \in Hashes |-> None]
    /\ netCalls = 0
    /\ prompts = 0
    /\ runs = 0
    /\ skip = FALSE
    /\ report = NoReport
    /\ frames = <<>>
    /\ scanned = NotScanned

NextRationale == rationale \/ models_rationale

SpecRationale == InitRationale /\ [][NextRationale]_vars

(***************************************************************************)
(* The summaries of a person entity                                        *)
(***************************************************************************)
\* person entities that differ in what the summaries are made of
SummaryPersons ==
    { [NoPerson EXCEPT !.summary = s, !.other_names = o, !.gender = g,
                       !.dates_of_birth = d, !.places_of_birth = b,
                       !.political_parties = a] :
        s \in {None, Some(""), Some("Ali, lawyer")},
        o \in {<<>>, <<"Aly">>, <<"Aly", "Ale">>},
        g \in {None, Some("male")},
        d \in {<<>>, <<"1957-10-10", "1960-01-01">>},
        b \in {<<>>, <<"">>, <<"Bima", "Jakarta">>},
        a \in {<<>>, <<"PDI", "Golkar">>} }

\* Person.entity_summary on the entity
summary ==
    /\ explained.by = "nobody"
    /\ explained' = [by |-> "entity_summary", value |-> Some(entity_summary(person))]
    /\ UNCHANGED <<person, now, rows, reqFile, respFile, pc, idx, last, attempt,
                   netCalls, prompts, runs, skip, report, frames, scanned>>

\* Person.politician_summary on the entity
politician ==
    /\ explained.by = "nobody"
    /\ explained' = [by |-> "politician_summary", value |-> Some(politician_summary(person))]
    /\ UNCHANGED <<person, now, rows, reqFile, respFile, pc, idx, last, attempt,
                   netCalls, prompts, runs, skip, report, frames, scanned>>

InitSummary ==
    /\ person \in SummaryPersons
    /\ explained = NotExplained
    /\ now = 0
    /\ rows = <<>>
    /\ reqFile = [h \in Hashes |-> NoFile]
    /\ respFile = [h \in Hashes |-> NoFile]
    /\ pc = "idle"
    /\ idx = 1
    /\ last = NoCall
    /\ attempt = [h \in Hashes |-> None]
    /\ netCalls = 0
    /\ prompts = 0
    /\ runs = 0
    /\ skip = FALSE
    /\ report = NoReport
    /\ frames = <<>>
    /\ scanned = NotScanned

NextSummary == summary \/ politician

SpecSummary == InitSummary /\ [][NextSummary]_vars

(***************************************************************************)
(* Matched organisation entities (models.py)                               *)
(***************************************************************************)
Organisations ==
    [ name                 : {"MAKENGA", "Acme"},
      category             : {"SIE"},
      original_script_name : {"", "Aly"},
      program              : {None, Some("SYRIA")},
      other_names          : {<<>>, <<"M23">>},
      basis                : {None, Some("UN list")},
      summary              : {None, Some("armed group")} ]

\* an organisation explained by the rules of a person entity
Organisation_rationale_as_person(o) ==
    IF Truthy(Some(o.original_script_name))
        THEN Some("Not an Indonesian name: " \o o.original_script_name)
    ELSE IF Truthy(o.program) /\ Contains("syr", Lower(o.program[1]))
        THEN Some("Suspect in Syrian conflict")
    ELSE None

\* Organisation.rationale
Organisation_rationale(o) == None

\* Organisation.entity_summary
Organisation_entity_summary(o) == o.name

\* Rationale(entity_to_scan, {match: match.rationale for match in organisations})
OrganisationRationale(s, organisations) ==
    [ entity_to_scan |-> s,
      matches_with_explanations |->
          [ i \in 1..Len(dict_keys(organisations)) |->
              [ entity |-> dict_keys(organisations)[i],
                explanation |-> Organisation_rationale(dict_keys(organisations)[i]) ] ] ]

\* the matches a subject can have besides the entity
FurtherMatches ==
    { <<>>,
      <<[ name |-> "Acme", category |-> "SIE", original_script_name |-> "",
          program |-> Some("SYRIA"), other_names |-> <<>>, basis |-> None,
          summary |-> None ]>> }

\* the entity's rationale and summary, and the verdict of a subject whose matches
\* are the entity and further organisations
organisation_rationale ==
    /\ explained.by = "nobody"
    /\ \E more \in FurtherMatches :
          LET s == OrganizationToScan_from_dataframe(
                       [Name |-> Some(person.name), Country |-> Some("Indonesia")])
              r == OrganisationRationale(s, <<person>> \o more)
          IN  explained' = [ by |-> "Organisation",
                             value |-> Organisation_rationale(person),
                             summary |-> Organisation_entity_summary(person),
                             matches |-> Rationale_matches(r),
                             explained |-> Rationale_explained(r),
                             verdict |-> to_verdict(r) ]
    /\ UNCHANGED <<person, now, rows, reqFile, respFile, pc, idx, last, attempt,
                   netCalls, prompts, runs, skip, report, frames, scanned>>

InitOrganisation ==
    /\ person \in Organisations
    /\ explained = NotExplained
    /\ now = 0
    /\ rows = <<>>
    /\ reqFile = [h \in Hashes |-> NoFile]
    /\ respFile = [h \in Hashes |-> NoFile]
    /\ pc = "idle"
    /\ idx = 1
    /\ last = NoCall
    /\ attempt = [h \in Hashes |-> None]
    /\ netCalls = 0
    /\ prompts = 0
    /\ runs = 0
    /\ skip = FALSE
    /\ report = NoReport
    /\ frames = <<>>
    /\ scanned = NotScanned

NextOrganisation == organisation_rationale

SpecOrganisation == InitOrganisation /\ [][NextOrganisation]_vars

(***************************************************************************)
(* The hashes of the subjects of two rows of a sheet                       *)
(***************************************************************************)
\* a cell is None when it is empty, Some(text) otherwise
Frame(name, first_name, middle_name, last_name, gender, dob, country) ==
    [ Name |-> Some(name), FirstName |-> first_name, MiddleName |-> middle_name,
      LastName |-> last_name, Gender |-> gender, DOB |-> dob, Country |-> Some(country) ]

\* the fields a hash does not read, varied together
Others == { <<None, "Indonesia">>, <<Some("bin"), "Malaysia">> }

HashFrames ==
    { Frame(n, f, o[1], l, g, d, o[2]) :
        n \in {"Ali", "AliM", "Al-i"},
        f \in {None, Some(""), Some("Mo"), Some("o")},
        l \in {None, Some("Khan")},
        g \in {None, Some(" Male")},
        d \in {None, Some("1981-09-21")},
        o \in Others }

\* both rows as subjects of one class, and their hashes
Hashed(class, subjects, digests) ==
    [ stage |-> "hashed", basic |-> scanned.basic, class |-> class,
      subjects |-> subjects, digests |-> digests ]

\* PersonToScan.hash of validate.py on the subjects of the rows
hash ==
    /\ scanned.stage = "frames"
    /\ Len(frames) = 2
    /\ LET subjects == [i \in 1..2 |-> PersonToScan_from_dataframe(frames[i])]
       IN  scanned' = Hashed("validate.PersonToScan", subjects,
                             [i \in 1..2 |-> PersonToScan_hash(subjects[i])])
    /\ UNCHANGED <<person, explained, now, rows, reqFile, respFile, pc, idx, last,
                   attempt, netCalls, prompts, runs, skip, report, frames>>

\* PersonToScan.hash of models.py on the subjects of the rows
models_hash ==
    /\ scanned.stage = "frames"
    /\ Len(frames) = 2
    /\ LET subjects == [i \in 1..2 |->
                          models_PersonToScan_from_dataframe(frames[i], scanned.basic)]
       IN  scanned' = Hashed("models.PersonToScan", subjects,
                             [i \in 1..2 |-> models_PersonToScan_hash(subjects[i])])
    /\ UNCHANGED <<person, explained, now, rows, reqFile, respFile, pc, idx, last,
                   attempt, netCalls, prompts, runs, skip, report, frames>>

\* OrganizationToScan.hash on the rows read as organisations
organization_hash ==
    /\ scanned.stage = "frames"
    /\ Len(frames) = 2
    /\ LET subjects == [i \in 1..2 |-> OrganizationToScan_from_dataframe(frames[i])]
       IN  scanned' = Hashed("OrganizationToScan", subjects,
                             [i \in 1..2 |-> OrganizationToScan_hash(subjects[i])])
    /\ UNCHANGED <<person, explained, now, rows, reqFile, respFile, pc, idx, last,
                   attempt, netCalls, prompts, runs, skip, report, frames>>

InitHash ==
    /\ person = NoPerson
    /\ explained = NotExplained
    /\ now = 0
    /\ rows = <<>>
    /\ reqFile = [h \in Hashes |-> NoFile]
    /\ respFile = [h \in Hashes |-> NoFile]
    /\ pc = "idle"
    /\ idx = 1
    /\ last = NoCall
    /\ attempt = [h \in Hashes |-> None]
    /\ netCalls = 0
    /\ prompts = 0
    /\ runs = 0
    /\ skip = FALSE
    /\ report = NoReport
    /\ frames \in [1..2 -> HashFrames]
    /\ scanned = NotScanned

NextHash == hash \/ models_hash \/ organization_hash

SpecHash == InitHash /\ [][NextHash]_vars

(***************************************************************************)
(* The date of birth of a row, as PersonToScan of models.py reads it       *)
(***************************************************************************)
\* number of times to_namescan_dob_format is applied to its own result
MaxApply == 2

\* the DOB cell of a row: empty, ISO dates with and without a time, dates that
\* do not exist, dd/mm/YYYY and other layouts
DobValues ==
    { None, Some(""), Some("1981-09-21"), Some("1981-09-21 00:00:00"),
      Some("1981-09-21T10:30"), Some("2000-02-29"), Some("1900-02-29"),
      Some("1981-02-30"), Some("1981-13-01"), Some("1981-00-10"), Some("0000-01-01"),
      Some("21/09/1981"), Some("19810921"), Some("1981-9-21"), Some("1981-09"),
      Some("abc"), Some("21-09-1981"), Some("1981/09/21"), Some("1981-09-21 25:00:00"),
      Some("2024-12-31 23:59:59") }

DobFrames == { Frame("Ali", None, None, None, None, d, "Indonesia") : d \in DobValues }

\* to_namescan_dob_format on the DOB cell of the row, then on its own result
format_dob ==
    /\ Len(frames) = 1
    /\ \/ /\ scanned.stage = "frames"
          /\ scanned' = [ stage |-> "dob", basic |-> scanned.basic,
                          dobs |-> <<to_namescan_dob_format(frames[1].DOB, scanned.basic)>> ]
       \/ /\ scanned.stage = "dob"
          /\ Len(scanned.dobs) < MaxApply
          /\ scanned' = [ scanned EXCEPT !.dobs =
                            Append(@, to_namescan_dob_format(Some(@[Len(@)]), scanned.basic)) ]
    /\ UNCHANGED <<person, explained, now, rows, reqFile, respFile, pc, idx, last,
                   attempt, netCalls, prompts, runs, skip, report, frames>>

\* PersonToScan.from_dataframe of models.py on the row
models_from_dataframe ==
    /\ Len(frames) = 1
    /\ scanned.stage = "frames"
    /\ scanned' = [ stage |-> "subject", basic |-> scanned.basic,
                    subject |-> models_PersonToScan_from_dataframe(frames[1], scanned.basic) ]
    /\ UNCHANGED <<person, explained, now, rows, reqFile, respFile, pc, idx, last,
                   attempt, netCalls, prompts, runs, skip, report, frames>>

InitDob ==
    /\ person = NoPerson
    /\ explained = NotExplained
    /\ now = 0
    /\ rows = <<>>
    /\ reqFile = [h \in Hashes |-> NoFile]
    /\ respFile = [h \in Hashes |-> NoFile]
    /\ pc = "idle"
    /\ idx = 1
    /\ last = NoCall
    /\ attempt = [h \in Hashes |-> None]
    /\ netCalls = 0
    /\ prompts = 0
    /\ runs = 0
    /\ skip = FALSE
    /\ report = NoReport
    /\ frames \in [1..1 -> DobFrames]
    /\ scanned \in { [NotScanned EXCEPT !.basic = b] : b \in BOOLEAN }

NextDob == format_dob \/ models_from_dataframe

SpecDob == InitDob /\ [][NextDob]_vars

(***************************************************************************)
(* Claims                                                                  *)
(***************************************************************************)
Called == last.row > 0

Applied == explained.by # "nobody"

\* C1: the rationale of every person entity follows the rule order deceased,
\* original-script name, 'syr' program, politician, role, foreign citizenship,
\* first match wins, and is None exactly when none of the six rules applies; a
\* foreign politician gets the politician message, not 'Foreigner: ...'.
C1_RuleOrder ==
    LET p  == person
        v  == explained.value
        r1 == p.deceased
        r2 == Truthy(p.original_script_name)
        r3 == Truthy(p.program) /\ Contains("syr", Lower(p.program[1]))
        r4 == InList("politician", p.occupations)
        r5 == Len(p.roles) > 0
        r6 == p.citizenship # "" /\ ~Contains("indonesia", Lower(p.citizenship))
    IN  Applied =>
          /\ r1 => v = Some("Deceased " \o Fmt(p.deceased_date))
          /\ ~r1 /\ r2 => v = Some("Not an Indonesian name: " \o p.original_script_name[1])
          /\ ~r1 /\ ~r2 /\ r3 => v = Some("Suspect in Syrian conflict")
          /\ ~r1 /\ ~r2 /\ ~r3 /\ r4 => v = Some(politician_summary(p))
          /\ ~r1 /\ ~r2 /\ ~r3 /\ ~r4 /\ r5 => v = Some("Public figure: " \o p.roles[1])
          /\ ~r1 /\ ~r2 /\ ~r3 /\ ~r4 /\ ~r5 /\ r6 => v = Some("Foreigner: " \o p.citizenship)
          /\ (v = None) <=> ~(r1 \/ r2 \/ r3 \/ r4 \/ r5 \/ r6)

\* C2: a deceased person entity gets exactly 'Deceased {deceased_date}', whatever
\* its other fields; a deceased politician never gets the politician message.
C2_DeceasedFirst ==
    (Applied /\ person.deceased)
        => explained.value = Some("Deceased " \o Fmt(person.deceased_date))

C2_Witness ==
    /\ explained.by = "validate"
    /\ person.deceased
    /\ InList("politician", person.occupations)
    /\ person.original_script_name = Some("Aly")
    /\ person.citizenship = "Malaysia"
    /\ explained.value = Some("Deceased 2001-02-03")

\* the verdict the spec gives a row with these counts
SpecVerdict(matches, expl) ==
    IF matches = 0 THEN "No match"
    ELSE IF expl = matches THEN "False positive"
    ELSE "Needs explanation"

\* C3: the verdict of a row is 'No match' with zero matches, 'False positive' with
\* at least one match and all of them explained, 'Needs explanation' otherwise; a
\* zero-match subject is never reported as 'False positive'.
C3_Verdict ==
    report # NoReport =>
        \A i \in 1..Len(report[1].table) :
            LET row == report[1].table[i]
            IN  row.Verdict = SpecVerdict(row.matches, row.explained)

\* C4: a call of send_request for a subject whose response file exists issues no
\* network call, succeeds with the parsed content of that file, and leaves the
\* file with the same parsed content.
C4_CacheHitIdempotent ==
    (Called /\ last.before # NoFile) =>
        /\ last.posted = 0
        /\ last.outcome = "success"
        /\ last.parsed = Some(json_loads(last.before[1]))
        /\ respFile[last.hash] # NoFile
        /\ json_loads(respFile[last.hash][1]) = json_loads(last.before[1])

C4_Witness ==
    /\ runs = MaxRuns
    /\ Called
    /\ last.before # NoFile
    /\ last.fileAge = 0
    /\ last.posted = 0
    /\ netCalls = 0
    /\ last.parsed = Some([complete |-> TRUE, date |-> now,
                           persons |-> <<DeceasedPerson>>])

\* C5: resolving a subject whose response file is older than max_age_days issues
\* exactly one network call and does not delete the file; resolving a subject with
\* no response file issues exactly one network call.
C5_StaleIsMiss ==
    Called =>
        /\ \A a \in Ages :
              (last.before # NoFile /\ last.fileAge > a)
                  => last.posted = 1 /\ respFile[last.hash] # NoFile
        /\ last.before = NoFile => last.posted = 1

\* C6: file_response returns None for a response older than max_days_old and
\* otherwise the pair (age, response) with the file's content; age is positive
\* for a response dated in the past; the file is unchanged.
C6_FreshnessCheck ==
    (Called /\ last.before # NoFile) =>
        \A a \in Ages :
            /\ last.fileAge > a => last.cached = None
            /\ (last.fileAge >= 0 /\ last.fileAge <= a) =>
                   /\ last.cached # None
                   /\ last.cached[1].content = last.before[1]

\* C7: a network response is reported as a failure exactly when its status is
\* neither 2xx nor 3xx; with a 2xx or 3xx status it is parsed and stored as the
\* subject's response; the failure report carries hash, name, status and body.
C7_FailureIffNot2xx3xx ==
    (Called /\ last.posted = 1 /\ last.outcome # "raised") =>
        LET success == last.status_code \in 200..399
        IN  /\ (last.error # None) <=> ~success
            /\ success =>
                  /\ last.parsed # None
                  /\ respFile[last.hash] = Some(json_dumps(last.parsed[1]))
            /\ last.error # None =>
                  /\ last.error[1].hash = last.hash
                  /\ last.error[1].name = rows[last.row].name
                  /\ last.error[1].status_code = last.status_code

\* C8: after a failed API call the batch moves on to the next subject only when
\* the operator has confirmed it, and a row issues at most one network call.
C8_ConfirmAfterFailure ==
    Called =>
        /\ last.afterFailure => last.confirmed
        /\ last.posted <= 1

\* C9: a subject whose response file is missing or incomplete does not abort the
\* report: its row has zero matches and an empty explanation, and every row of
\* the input is in the output.
C9_UnreadableResponseIsZeroMatchRow ==
    pc \in {"done", "explain_raised"} =>
        \A i \in 1..Len(rows) :
            create_rationale_raises(rows[i]) =>
                /\ pc = "done"
                /\ report # NoReport
                /\ Len(report[1].table) = Len(rows)
                /\ report[1].table[i].matches = 0
                /\ report[1].table[i].Explanation = ""

\* C10: after any sequence of send_request calls the request file of a hash holds
\* the payload of the latest call for that hash, whether that call was a cache
\* hit, a successful network call or a failed one.
C10_RequestFileIsLatestAttempt ==
    \A h \in Hashes :
        reqFile[h] = IF attempt[h] = None THEN NoFile
                     ELSE Some(json_dumps(attempt[h][1]))

C10_Witness ==
    /\ Called
    /\ last.row = 2
    /\ last.before # NoFile
    /\ rows[1] # rows[2]
    /\ PersonToScan_hash(rows[1]) = PersonToScan_hash(rows[2])
    /\ reqFile[last.hash] = Some(json_dumps(rows[2]))

RECURSIVE ColumnTotal(_, _)
\* the values of one numeric column of the first n rows of the report, added up
ColumnTotal(column, n) ==
    IF n = 0 THEN 0 ELSE ColumnTotal(column, n - 1) + column[n]

\* C12: in every report each row has no more explained matches than matches,
\* the logged total of matches is the sum of the rows' match counts and the
\* logged total of explained matches is the sum of the rows' explained counts.
C12_Totals ==
    report # NoReport =>
        LET t == report[1].table
        IN  /\ \A i \in 1..Len(t) : 0 <= t[i].explained /\ t[i].explained <= t[i].matches
            /\ report[1].total_matches
                  = ColumnTotal([i \in 1..Len(t) |-> t[i].matches], Len(t))
            /\ report[1].total_explained
                  = ColumnTotal([i \in 1..Len(t) |-> t[i].explained], Len(t))

\* a report of two rows that both have matches, one of them an unexplained one
C12_Witness ==
    /\ report # NoReport
    /\ Len(report[1].table) = 2
    /\ \A i \in 1..2 : report[1].table[i].matches > 0
    /\ report[1].total_explained < report[1].total_matches
    /\ report[1].total_explained > 1

\* C13: the report has exactly one row per input row, in the input's order; the
\* derived columns of row i are computed from the subject of input row i and its
\* stored response: UniqueId is that subject's hash, Matched holds exactly when
\* it has a match; rows with the same hash are neither merged nor dropped.
C13_RowAlignment ==
    report # NoReport =>
        LET t == report[1].table
        IN  /\ Len(t) = Len(rows)
            /\ \A i \in 1..Len(rows) :
                  LET r == create_rationale(rows[i])
                  IN  /\ t[i].input = rows[i]
                      /\ t[i].UniqueId = PersonToScan_hash(rows[i])
                      /\ t[i].Matched <=> (t[i].matches > 0)
                      /\ t[i].matches = Len(r.matches_with_explanations)
                      /\ t[i].Verdict = to_verdict(r)
                      /\ t[i].Explanation = Rationale_rationale(r)
                      /\ t[i].NeedExplanation = Rationale_no_rationale(r)

\* a report of two different input rows that have the same hash
C13_Witness ==
    /\ report # NoReport
    /\ Len(rows) = 2
    /\ rows[1] # rows[2]
    /\ PersonToScan_hash(rows[1]) = PersonToScan_hash(rows[2])
    /\ report[1].table[1].UniqueId = report[1].table[2].UniqueId
    /\ report[1].table[1].input # report[1].table[2].input

PersonClasses == {"validate.PersonToScan", "models.PersonToScan"}

\* the identifying fields of a person subject, an absent one read as ""
IdentifyingFields(s) ==
    <<s.name, OrEmpty(s.dob), OrEmpty(s.first_name), OrEmpty(s.last_name), OrEmpty(s.gender)>>

\* C14: two person subjects whose identifying fields (name, dob, first name, last
\* name, gender) differ, in one field or in more, are given different strings
\* to digest, so that their hashes differ.
C14_DifferentFieldsDifferentDigestInput ==
    (scanned.stage = "hashed" /\ scanned.class \in PersonClasses) =>
        (IdentifyingFields(scanned.subjects[1]) # IdentifyingFields(scanned.subjects[2])
            => scanned.digests[1] # scanned.digests[2])

\* C15: the hash is a function of the identifying fields only.  Two person
\* subjects with the same name, dob, first name, last name and gender have the
\* same hash whatever their middle name and country and whether an absent field
\* is None or ""; two organisation subjects with the same name and country have
\* the same hash; and hashing leaves the subjects as from_dataframe built them.
C15_HashOfIdentifyingFieldsOnly ==
    scanned.stage = "hashed" =>
        LET s == scanned.subjects
        IN  /\ (scanned.class \in PersonClasses /\ IdentifyingFields(s[1]) = IdentifyingFields(s[2]))
                  => scanned.digests[1] = scanned.digests[2]
            /\ (scanned.class = "OrganizationToScan"
                  /\ s[1].name = s[2].name /\ s[1].country = s[2].country)
                  => scanned.digests[1] = scanned.digests[2]
            /\ scanned.class = "validate.PersonToScan"
                  => s = [i \in 1..2 |-> PersonToScan_from_dataframe(frames[i])]
            /\ scanned.class = "models.PersonToScan"
                  => s = [i \in 1..2 |->
                            models_PersonToScan_from_dataframe(frames[i], scanned.basic)]

\* two subjects of models.py with the same identifying fields, one with no first
\* name and one with an empty one, of different middle names and countries, got
\* the same hash
C15_Witness ==
    /\ scanned.stage = "hashed"
    /\ scanned.class = "models.PersonToScan"
    /\ scanned.subjects[1].first_name = None
    /\ scanned.subjects[2].first_name = Some("")
    /\ scanned.subjects[1].middle_name # scanned.subjects[2].middle_name
    /\ scanned.subjects[1].country # scanned.subjects[2].country
    /\ scanned.subjects[1].dob # None /\ scanned.subjects[1].gender = Some("male")
    /\ scanned.digests[1] = scanned.digests[2]

\* C18: to_namescan_dob_format never fails.  None gives "", a date fromisoformat
\* reads (YYYY-MM-DD, with or without a time; YYYYMMDD where the interpreter
\* reads it) gives the same day, month and year as dd/mm/YYYY, any other text is
\* returned unchanged, and applying the function to its own result gives that
\* result again; from_dataframe stores the formatted value as the subject's dob.
C18_DobFormat ==
    LET x == frames[1].DOB
        Expected ==
            IF x = None THEN ""
            ELSE IF fromisoformat(x[1], scanned.basic).valid
            THEN IF SubSeq(x[1], 5, 5) = "-"
                 THEN SubSeq(x[1], 9, 10) \o "/" \o SubSeq(x[1], 6, 7) \o "/" \o SubSeq(x[1], 1, 4)
                 ELSE SubSeq(x[1], 7, 8) \o "/" \o SubSeq(x[1], 5, 6) \o "/" \o SubSeq(x[1], 1, 4)
            ELSE x[1]
    IN  /\ scanned.stage = "dob" =>
              /\ scanned.dobs[1] = Expected
              /\ \A i \in 1..Len(scanned.dobs) : scanned.dobs[i] = scanned.dobs[1]
        /\ scanned.stage = "subject" => scanned.subject.dob = Some(Expected)

\* the cell "1981-09-21 00:00:00" was formatted to "21/09/1981", and formatting
\* that again gave "21/09/1981"
C18_Witness ==
    /\ scanned.stage = "dob"
    /\ frames[1].DOB = Some("1981-09-21 00:00:00")
    /\ Len(scanned.dobs) = 2
    /\ scanned.dobs = <<"21/09/1981", "21/09/1981">>

\* ", " and the text when there is one, nothing otherwise
Clause(prefix, texts) == IF Len(texts) > 0 THEN prefix \o texts[1] ELSE ""

\* C17: entity_summary is the explicit summary when that is non-empty; otherwise
\* it is the alias names joined by ", " (the primary name when there is no
\* alias) followed, in this order, by ", {gender}", ", born {first date of
\* birth}" and ", in {first place of birth}", each left out when its source is
\* empty.  politician_summary is "Politician, " followed by entity_summary,
\* followed by " for {first party}" only when the party list is non-empty.
C17_Summaries ==
    LET p      == person
        names  == IF p.other_names = <<>> THEN p.name
                  ELSE IF Len(p.other_names) = 1 THEN p.other_names[1]
                  ELSE p.other_names[1] \o ", " \o Join(", ", Tail(p.other_names))
        entity == IF p.summary # None /\ p.summary # Some("") THEN p.summary[1]
                  ELSE names \o Clause(", ", p.gender)
                             \o Clause(", born ", p.dates_of_birth)
                             \o Clause(", in ", p.places_of_birth)
    IN  /\ explained.by = "entity_summary" => explained.value = Some(entity)
        /\ explained.by = "politician_summary" =>
              explained.value
                = Some("Politician, " \o entity \o Clause(" for ", p.political_parties))

\* the politician summary of an entity with two aliases, a gender, two dates and
\* two places of birth, two parties and no explicit summary
C17_Witness ==
    /\ explained.by = "politician_summary"
    /\ person.summary = None
    /\ Len(person.other_names) = 2
    /\ explained.value = Some("Politician, Aly, Ale, male, born 1957-10-10, in Bima for PDI")

====
